---- MODULE Spec2Model ----
(***************************************************************************)
(* Model of the levelsprotechshop product API: the Product / ProductImage  *)
(* tables, the ProductViewSet handlers (create, update, partial_update,    *)
(* destroy, delete_image, list, retrieve), the dashboard, health_check and *)
(* login views, the permission check in front of them, and the serializer  *)
(* validation and the price helpers they call.                             *)
(*                                                                         *)
(* Every ORM write commits on its own: the handlers catch their own        *)
(* exceptions and return a normal response, so no enclosing transaction    *)
(* is ever rolled back on an error path.                                   *)
(***************************************************************************)
EXTENDS Integers, Sequences, FiniteSets, TLC

VARIABLES
    products,      \* Product table: id -> row
    images,        \* ProductImage table: image id -> owning product id
    nextImageId,   \* next value of the ProductImage auto-increment key
    tokens,        \* Token table: rows of key and user
    last,          \* the request completed last and its response
    pending,       \* the list / dashboard request waiting to be served
    inflight       \* delete_image requests in progress, by worker

vars == <<products, images, nextImageId, tokens, last, pending, inflight>>

----------------------------------------------------------------------------
(* Bounds of the model *)

MaxImageId == 3       \* image rows ever inserted, lifecycle specification
MaxAccountImages == 2 \* image rows ever inserted, accounts specification
CapImageId == 11      \* image rows ever inserted, image-limit specification
MaxCatalog == 4       \* products in the catalog of the listing specification
MaxOffset == 3        \* largest offset of a list request

----------------------------------------------------------------------------
(* Program constants *)

MaxImagesPerProduct == 10
MinNameLength == 3
MaxNameLength == 200
MaxImageSize == 5242880
DefaultLimit == 20
MaxLimit == 100
PIL_AVAILABLE == TRUE

HTTP_200_OK == 200
HTTP_201_CREATED == 201
HTTP_400_BAD_REQUEST == 400
HTTP_401_UNAUTHORIZED == 401
HTTP_403_FORBIDDEN == 403
HTTP_404_NOT_FOUND == 404
HTTP_500_INTERNAL_SERVER_ERROR == 500

CATEGORY_CHOICES == {"Laptops", "Desktops", "Gaming PCs", "Accessories"}
allowed_types == {"image/jpeg", "image/jpg", "image/png", "image/gif", "image/webp"}

----------------------------------------------------------------------------
(* Strings that the code inspects character by character (prices) are      *)
(* sequences of one-character strings.                                     *)

Digits == {"0", "1", "2", "3", "4", "5", "6", "7", "8", "9"}

DigitVal(c) ==
    CASE c = "0" -> 0 [] c = "1" -> 1 [] c = "2" -> 2 [] c = "3" -> 3
      [] c = "4" -> 4 [] c = "5" -> 5 [] c = "6" -> 6 [] c = "7" -> 7
      [] c = "8" -> 8 [] c = "9" -> 9

DigitChar(d) == <<"0", "1", "2", "3", "4", "5", "6", "7", "8", "9">>[d + 1]

IsDigits(s) == Len(s) > 0 /\ \A i \in 1..Len(s) : s[i] \in Digits

RECURSIVE ToInt(_)
ToInt(s) ==
    IF s = <<>> THEN 0
    ELSE 10 * ToInt(SubSeq(s, 1, Len(s) - 1)) + DigitVal(s[Len(s)])

RECURSIVE IntToChars(_)
IntToChars(n) ==
    IF n < 10 THEN <<DigitChar(n)>>
    ELSE IntToChars(n \div 10) \o <<DigitChar(n % 10)>>

\* str.replace(old, '') for a one-character old
RemoveChar(s, c) == SelectSeq(s, LAMBDA x : x # c)

\* str.replace('TZS', '')
RECURSIVE RemoveTZS(_)
RemoveTZS(s) ==
    IF Len(s) < 3 THEN s
    ELSE IF SubSeq(s, 1, 3) = <<"T", "Z", "S">>
         THEN RemoveTZS(SubSeq(s, 4, Len(s)))
         ELSE <<s[1]>> \o RemoveTZS(SubSeq(s, 2, Len(s)))

\* str.strip()
RECURSIVE Strip(_)
Strip(s) ==
    IF s = <<>> THEN s
    ELSE IF s[1] = " " THEN Strip(SubSeq(s, 2, Len(s)))
    ELSE IF s[Len(s)] = " " THEN Strip(SubSeq(s, 1, Len(s) - 1))
    ELSE s

\* f"{n:,}"
RECURSIVE GroupThousands(_)
GroupThousands(ds) ==
    IF Len(ds) <= 3 THEN ds
    ELSE GroupThousands(SubSeq(ds, 1, Len(ds) - 3))
             \o <<",">> \o SubSeq(ds, Len(ds) - 2, Len(ds))

format_price_with_commas(price_value) ==
    LET price_str == Strip(RemoveTZS(RemoveChar(RemoveChar(price_value, ","), " ")))
    IN  IF IsDigits(price_str)
        THEN GroupThousands(IntToChars(ToInt(price_str)))
        ELSE price_value

\* (,\d{3})*
RECURSIVE CommaGroups(_)
CommaGroups(s) ==
    \/ s = <<>>
    \/ /\ Len(s) >= 4
       /\ s[1] = ","
       /\ IsDigits(SubSeq(s, 2, 4))
       /\ CommaGroups(SubSeq(s, 5, Len(s)))

\* \d{1,3}(,\d{3})*
Grouped(s) ==
    \E k \in 1..3 :
        /\ k <= Len(s)
        /\ IsDigits(SubSeq(s, 1, k))
        /\ CommaGroups(SubSeq(s, k + 1, Len(s)))

\* (?:\s+TZS)?
TZSSuffix(s) ==
    \/ s = <<>>
    \/ /\ Len(s) >= 4
       /\ SubSeq(s, Len(s) - 2, Len(s)) = <<"T", "Z", "S">>
       /\ \A i \in 1..(Len(s) - 3) : s[i] = " "

validate_price_format(price) ==
    LET price_str == Strip(price)
    IN  \/ \E i \in 0..Len(price_str) :
              /\ Grouped(SubSeq(price_str, 1, i))
              /\ TZSSuffix(SubSeq(price_str, i + 1, Len(price_str)))
        \/ IsDigits(price_str)

validate_category(category) == category \in CATEGORY_CHOICES

\* float(numeric_str) inside try/except: 0 when the text is not a number.
\* Over the alphabet of the model (digits, comma, space, letters) the text
\* parses exactly when it is a non-empty run of digits.
_extract_price_value(price_str) ==
    LET numeric_str == Strip(RemoveChar(RemoveTZS(price_str), ","))
    IN  IF IsDigits(numeric_str) THEN ToInt(numeric_str) ELSE 0

----------------------------------------------------------------------------
(* Serializer field validation (ProductSerializer) *)

RequiredFields == {"name", "category", "price"}

validate_name(value) == Len(value) >= MinNameLength /\ Len(value) <= MaxNameLength

\* the price that is stored: plain digits get commas, "NNN TZS" is regrouped
validate_price(value) ==
    LET price_str == Strip(value)
        number_part == Strip(RemoveChar(RemoveTZS(price_str), ","))
    IN  IF IsDigits(price_str) THEN format_price_with_commas(price_str)
        ELSE IF RemoveTZS(price_str) # price_str /\ IsDigits(number_part)
             THEN format_price_with_commas(number_part) \o <<" ", "T", "Z", "S">>
        ELSE price_str

\* is_valid(): every required field present (unless partial) and every
\* supplied field accepted by its validate_<field>
fields_valid(data, partial) ==
    /\ partial \/ RequiredFields \subseteq DOMAIN data
    /\ "name" \in DOMAIN data => validate_name(data["name"])
    /\ "category" \in DOMAIN data => validate_category(data["category"])
    /\ "price" \in DOMAIN data => validate_price_format(data["price"])

\* images_data = ListField(child=CharField(required=False)): the child
\* field does not allow blank strings
images_data_valid(images_data) ==
    \A i \in 1..Len(images_data) : images_data[i] # ""

read_only_fields == {"id", "created_at", "updated_at", "images", "creator"}

\* validated_data: the supplied writable fields, price normalised
validated_fields(data) ==
    [f \in DOMAIN data \ read_only_fields |->
        IF f = "price" THEN validate_price(data[f]) ELSE data[f]]

\* validate without the check of the number of base64 images
validate_unbounded(images_data, images_in_initial_data) ==
    IF images_data = <<>> /\ ~images_in_initial_data
    THEN "At least one image is required."
    ELSE ""

\* ProductCreateSerializer.validate: "" when the attrs pass, else the message
validate(images_data, images_in_initial_data) ==
    IF images_data = <<>> /\ ~images_in_initial_data
    THEN "At least one image is required."
    ELSE IF Len(images_data) > MaxImagesPerProduct
    THEN "Maximum 10 images allowed per product."
    ELSE ""

----------------------------------------------------------------------------
(* Image payloads *)

B64Png == "data:image/png;base64,iVBORw0KGgo="
B64Junk == "not-an-image"

\* base64_to_image returns a file for a decodable image and raises otherwise
base64_to_image_ok(base64_string) == PIL_AVAILABLE /\ base64_string = B64Png

FilePng == [size |-> 2048, content_type |-> "image/png"]
FileHuge == [size |-> MaxImageSize + 1, content_type |-> "image/png"]
FileText == [size |-> 2048, content_type |-> "text/plain"]

\* validate_image_file: "" when accepted, else the ValueError message
validate_image_file(image_file) ==
    IF image_file.size > MaxImageSize THEN "Image size exceeds 5MB limit"
    ELSE IF image_file.content_type \notin allowed_types THEN "Invalid image type"
    ELSE ""

----------------------------------------------------------------------------
(* The store *)

Store ==
    [products |-> products, images |-> images, nextImageId |-> nextImageId,
     tokens |-> tokens]

images_of(db, pid) == {i \in DOMAIN db.images : db.images[i] = pid}

images_count(db, pid) == Cardinality(images_of(db, pid))

Restrict(f, S) == [x \in S |-> f[x]]

\* Product.objects.create(**validated_data, creator=user)
Product_create(db, pid, attrs, creator, now) ==
    LET row == [name |-> attrs["name"],
                category |-> attrs["category"],
                price |-> attrs["price"],
                trending |-> IF "trending" \in DOMAIN attrs THEN attrs["trending"] ELSE FALSE,
                creator |-> creator,
                created_at |-> now,
                updated_at |-> now]
    IN  [db EXCEPT !.products = (pid :> row) @@ @]

\* ProductImage.objects.create(product=product, image=...)
ProductImage_create(db, pid) ==
    [db EXCEPT !.images = (db.nextImageId :> pid) @@ @,
               !.nextImageId = @ + 1]

\* a delete of the product row alone
Product_delete_row_only(db, pid) ==
    [db EXCEPT !.products = Restrict(@, DOMAIN @ \ {pid})]

\* product.delete(): on_delete=CASCADE removes the product's images
Product_delete(db, pid) ==
    [db EXCEPT !.products = Restrict(@, DOMAIN @ \ {pid}),
               !.images = Restrict(@, DOMAIN @ \ images_of(db, pid))]

\* image.delete()
ProductImage_delete(db, image_id) ==
    [db EXCEPT !.images = Restrict(@, DOMAIN @ \ {image_id})]

\* setattr(instance, attr, value) for the validated fields; instance.save()
Product_save(db, pid, attrs, now) ==
    LET old == db.products[pid]
        new == [f \in DOMAIN old |->
                   IF f \in DOMAIN attrs THEN attrs[f]
                   ELSE IF f = "updated_at" THEN now
                   ELSE old[f]]
    IN  [db EXCEPT !.products[pid] = new]

\* for idx, image_data in enumerate(images_data): decode and attach, raising
\* at the first string that does not decode.  failed = 0 when none raised.
RECURSIVE attach_base64(_, _, _, _)
attach_base64(db, pid, images_data, idx) ==
    IF idx > Len(images_data) THEN [db |-> db, failed |-> 0]
    ELSE IF images_data[idx] = ""
         THEN attach_base64(db, pid, images_data, idx + 1)
    ELSE IF base64_to_image_ok(images_data[idx])
         THEN attach_base64(ProductImage_create(db, pid), pid, images_data, idx + 1)
         ELSE [db |-> db, failed |-> idx]

\* for image_file in images: validate and attach, stopping at the first
\* file that validate_image_file rejects
RECURSIVE attach_files(_, _, _, _)
attach_files(db, pid, files, idx) ==
    IF idx > Len(files) THEN [db |-> db, failed |-> 0]
    ELSE IF validate_image_file(files[idx]) = ""
         THEN attach_files(ProductImage_create(db, pid), pid, files, idx + 1)
         ELSE [db |-> db, failed |-> idx]

\* ProductCreateSerializer.create
serializer_create(db, pid, attrs, creator, images_data, now) ==
    attach_base64(Product_create(db, pid, attrs, creator, now), pid, images_data, 1)

\* an update that replaces the product's images by the supplied ones
serializer_update_replacing(db, pid, attrs, images_data, now) ==
    LET saved == Product_save(db, pid, attrs, now)
        cleared == IF images_data = <<>> THEN saved
                   ELSE [saved EXCEPT
                            !.images = Restrict(@, DOMAIN @ \ images_of(db, pid))]
    IN  attach_base64(cleared, pid, images_data, 1)

\* ProductCreateSerializer.update
serializer_update(db, pid, attrs, images_data, now) ==
    attach_base64(Product_save(db, pid, attrs, now), pid, images_data, 1)

----------------------------------------------------------------------------
(* Requests and responses *)

NoData == [f \in {} |-> ""]

\* the page part of a response that lists nothing
NoPage == [sort |-> "", limit |-> 0, offset |-> 0, count |-> 0,
           total_pages |-> 0, items |-> <<>>, ordered |-> <<>>]

\* request.user of a request that carries no credentials (AnonymousUser)
Anonymous == ""

\* user: the principal of the request; account and token: the data of a
\* successful login
NoRequest ==
    [op |-> "none", user |-> Anonymous, pid |-> "", image_id |-> 0,
     status |-> 0, error |-> "", persisted |-> FALSE, page |-> NoPage,
     account |-> "", token |-> ""]

\* an integer query parameter: absent, or given with a value
Absent == [given |-> FALSE, value |-> 0]
Given(n) == [given |-> TRUE, value |-> n]

\* a text query parameter that may be absent (None)
NoText == [given |-> FALSE, value |-> <<>>]
Text(t) == [given |-> TRUE, value |-> t]

\* no list request is waiting
NoQuery ==
    [op |-> "none", user |-> "", category |-> "", search |-> <<>>,
     trending |-> NoText, sort |-> "",
     limit |-> Absent, offset |-> Absent]

\* what is remembered of a create / update request: the handler and the
\* product it addressed (for create: the id the new row gets)
RequestInfo(op, pid, req) == [NoRequest EXCEPT !.op = op, !.pid = pid]

\* error_response(message, status_code) / success_response(status_code)
Answer(db, info, status, error, persisted) ==
    [db |-> db,
     resp |-> [info EXCEPT !.status = status, !.error = error,
                           !.persisted = persisted]]

----------------------------------------------------------------------------
(* ProductViewSet.create *)

\* the 201 response without the check that an image exists
create_finish_unchecked(db, info, pid) ==
    Answer(db, info, HTTP_201_CREATED, "", TRUE)

\* "Validate at least one image exists", then the 201 response
create_finish(db, info, pid) ==
    IF images_count(db, pid) = 0
    THEN Answer(Product_delete(db, pid), info, HTTP_400_BAD_REQUEST,
                "At least one image is required", TRUE)
    ELSE Answer(db, info, HTTP_201_CREATED, "", TRUE)

\* "Handle image file uploads"
create_files(db, info, pid, files) ==
    IF Len(files) > MaxImagesPerProduct
    THEN Answer(Product_delete(db, pid), info, HTTP_400_BAD_REQUEST,
                "Maximum 10 images allowed per product", TRUE)
    ELSE LET f == attach_files(db, pid, files, 1)
         IN  IF f.failed # 0
             THEN Answer(Product_delete(f.db, pid), info, HTTP_400_BAD_REQUEST,
                         validate_image_file(files[f.failed]), TRUE)
             ELSE create_finish(f.db, info, pid)

create(db, req, user, pid, now) ==
    LET info == RequestInfo("create", pid, req)
        message == validate(req.images_data, req.images_key # "absent")
        saved == serializer_create(db, pid, validated_fields(req.data), user,
                                   req.images_data, now)
    IN  IF ~fields_valid(req.data, FALSE) \/ ~images_data_valid(req.images_data)
        THEN Answer(db, info, HTTP_400_BAD_REQUEST, "Invalid field", FALSE)
        ELSE IF message # ""
        THEN Answer(db, info, HTTP_400_BAD_REQUEST, message, FALSE)
        ELSE IF saved.failed # 0
        THEN \* ValidationError out of serializer.save(), caught by
             \* "except Exception": the response is built, nothing is undone
             Answer(saved.db, info, HTTP_400_BAD_REQUEST,
                    "Error processing image", TRUE)
        ELSE IF req.images_key = "files"
        THEN create_files(saved.db, info, pid, req.files)
        ELSE create_finish(saved.db, info, pid)

----------------------------------------------------------------------------
(* ProductViewSet.update and partial_update *)

\* "Handle new image file uploads"; failed = "" when the loop completed
update_files(db, pid, files) ==
    IF images_count(db, pid) + Len(files) > MaxImagesPerProduct
    THEN [db |-> db, error |-> "Maximum 10 images allowed"]
    ELSE LET f == attach_files(db, pid, files, 1)
         IN  [db |-> f.db,
              error |-> IF f.failed # 0 THEN validate_image_file(files[f.failed])
                        ELSE ""]

perform_update(db, op, req, pid, partial, now) ==
    LET info == RequestInfo(op, pid, req)
        message == validate(req.images_data, req.images_key # "absent")
        uploaded == IF req.images_key = "files" THEN update_files(db, pid, req.files)
                    ELSE [db |-> db, error |-> ""]
        saved == serializer_update(uploaded.db, pid, validated_fields(req.data),
                                   req.images_data, now)
    IN  IF pid \notin DOMAIN db.products
        THEN \* get_object raises Http404, which is not Product.DoesNotExist
             \* and has no detail: the last handler answers
             Answer(db, info, HTTP_400_BAD_REQUEST, "Failed to update product", FALSE)
        ELSE IF ~fields_valid(req.data, partial) \/ ~images_data_valid(req.images_data)
        THEN Answer(db, info, HTTP_400_BAD_REQUEST, "Invalid field", FALSE)
        ELSE IF message # ""
        THEN Answer(db, info, HTTP_400_BAD_REQUEST, message, FALSE)
        ELSE IF uploaded.error # ""
        THEN Answer(uploaded.db, info, HTTP_400_BAD_REQUEST, uploaded.error, FALSE)
        ELSE IF saved.failed # 0
        THEN Answer(saved.db, info, HTTP_400_BAD_REQUEST,
                    "Error processing image", TRUE)
        ELSE Answer(saved.db, info, HTTP_200_OK, "", TRUE)

update(db, req, pid, now) == perform_update(db, "update", req, pid, FALSE, now)

partial_update(db, req, pid, now) ==
    perform_update(db, "partial_update", req, pid, TRUE, now)

----------------------------------------------------------------------------
(* ProductViewSet.destroy and delete_image *)

destroy(db, pid) ==
    LET info == [NoRequest EXCEPT !.op = "destroy", !.pid = pid]
    IN  IF pid \notin DOMAIN db.products
        THEN Answer(db, info, HTTP_500_INTERNAL_SERVER_ERROR,
                    "Failed to delete product", FALSE)
        ELSE Answer(Product_delete(db, pid), info, HTTP_200_OK, "", FALSE)

\* delete_image without the protection of the last image
delete_image_unguarded(db, pid, image_id) ==
    LET info == [NoRequest EXCEPT !.op = "delete_image", !.pid = pid,
                                  !.image_id = image_id]
    IN  IF pid \notin DOMAIN db.products
        THEN Answer(db, info, HTTP_500_INTERNAL_SERVER_ERROR,
                    "Failed to delete image", FALSE)
        ELSE IF image_id \notin images_of(db, pid)
        THEN Answer(db, info, HTTP_404_NOT_FOUND, "Image not found", FALSE)
        ELSE Answer(ProductImage_delete(db, image_id), info, HTTP_200_OK, "", FALSE)

delete_image(db, pid, image_id) ==
    LET info == [NoRequest EXCEPT !.op = "delete_image", !.pid = pid,
                                  !.image_id = image_id]
    IN  IF pid \notin DOMAIN db.products
        THEN Answer(db, info, HTTP_500_INTERNAL_SERVER_ERROR,
                    "Failed to delete image", FALSE)
        ELSE IF image_id \notin images_of(db, pid)
        THEN Answer(db, info, HTTP_404_NOT_FOUND, "Image not found", FALSE)
        ELSE IF images_count(db, pid) <= 1
        THEN Answer(db, info, HTTP_400_BAD_REQUEST,
                    "Cannot delete the last image. At least one image is required.",
                    FALSE)
        ELSE Answer(ProductImage_delete(db, image_id), info, HTTP_200_OK, "", FALSE)

----------------------------------------------------------------------------
(* ProductViewSet.retrieve, health_check and login *)

retrieve(db, pid) ==
    LET info == [NoRequest EXCEPT !.op = "retrieve", !.pid = pid]
    IN  IF pid \notin DOMAIN db.products
        THEN \* get_object raises Http404, which "except Product.DoesNotExist"
             \* does not catch: "except Exception" answers
             Answer(db, info, HTTP_500_INTERNAL_SERVER_ERROR,
                    "Failed to retrieve product", FALSE)
        ELSE Answer(db, info, HTTP_200_OK, "", FALSE)

health_check(db) ==
    Answer(db, [NoRequest EXCEPT !.op = "health_check"], HTTP_200_OK, "", FALSE)

\* the accounts of django.contrib.auth: username -> password
UserTable == ("alice" :> "alice-pw") @@ ("bob" :> "bob-pw")

\* authenticate(username=..., password=...): the user, or Anonymous for None
authenticate(username, password) ==
    IF username \in DOMAIN UserTable /\ UserTable[username] = password
    THEN username ELSE Anonymous

\* a Token row is created at every call
Token_create_always(db, user, key) ==
    LET token == [key |-> key, user |-> user]
    IN  [db |-> [db EXCEPT !.tokens = @ \cup {token}], token |-> token]

\* Token.objects.get_or_create(user=user); key is the key a new row gets
Token_get_or_create(db, user, key) ==
    IF \E t \in db.tokens : t.user = user
    THEN [db |-> db, token |-> CHOOSE t \in db.tokens : t.user = user]
    ELSE LET token == [key |-> key, user |-> user]
         IN  [db |-> [db EXCEPT !.tokens = @ \cup {token}], token |-> token]

\* a key of the login body: absent (None), or given with a value
NoField == [given |-> FALSE, value |-> ""]
Field(v) == [given |-> TRUE, value |-> v]

\* key: the key Token.generate_key would give a new row
login(db, data, key) ==
    LET info == [NoRequest EXCEPT !.op = "login"]
        user == authenticate(data.username.value, data.password.value)
        got == Token_get_or_create(db, user, key)
    IN  IF \/ ~data.username.given \/ data.username.value = ""
           \/ ~data.password.given \/ data.password.value = ""
        THEN Answer(db, info, HTTP_400_BAD_REQUEST,
                    "Username and password are required", FALSE)
        ELSE IF user = Anonymous
        THEN Answer(db, info, HTTP_401_UNAUTHORIZED,
                    "Invalid username or password", FALSE)
        ELSE Answer(got.db,
                    [info EXCEPT !.account = user, !.token = got.token.key],
                    HTTP_200_OK, "", TRUE)

----------------------------------------------------------------------------
(* Permissions *)

\* the permission class of views that declare none
DEFAULT_PERMISSION_CLASSES == "AllowAny"

\* every action of the view set is open
get_permissions_open(action) == "AllowAny"

\* ProductViewSet.get_permissions
get_permissions(action) ==
    IF action \in {"create", "update", "partial_update", "destroy", "delete_image"}
    THEN "IsAuthenticated"
    ELSE "AllowAny"

\* @permission_classes of the function views, get_permissions of the view set
permission_classes(view) ==
    CASE view = "login" -> "AllowAny"
      [] view = "dashboard" -> "IsAuthenticated"
      [] view = "health_check" -> DEFAULT_PERMISSION_CLASSES
      [] OTHER -> get_permissions(view)

has_permission(permission, user) ==
    permission = "IsAuthenticated" => user # Anonymous

NotAuthenticated == "Authentication credentials were not provided."

\* APIView.initial: check_permissions runs before the handler; a request
\* that is denied gets 401 or 403, as the authentication scheme dictates,
\* and the handler does not run.  results: the handler's possible outcomes
dispatch(db, view, user, pid, results) ==
    IF has_permission(permission_classes(view), user) THEN results
    ELSE {Answer(db, [NoRequest EXCEPT !.op = view, !.pid = pid], denied,
                 NotAuthenticated, FALSE) :
             denied \in {HTTP_401_UNAUTHORIZED, HTTP_403_FORBIDDEN}}

----------------------------------------------------------------------------
(* Text helpers of the catalogue queries *)

UpperLetters ==
    <<"A", "B", "C", "D", "E", "F", "G", "H", "I", "J", "K", "L", "M",
      "N", "O", "P", "Q", "R", "S", "T", "U", "V", "W", "X", "Y", "Z">>

LowerLetters ==
    <<"a", "b", "c", "d", "e", "f", "g", "h", "i", "j", "k", "l", "m",
      "n", "o", "p", "q", "r", "s", "t", "u", "v", "w", "x", "y", "z">>

\* the characters of the model, in the order of their codes
Alphabet ==
    <<" ", ",", "0", "1", "2", "3", "4", "5", "6", "7", "8", "9">>
        \o UpperLetters \o LowerLetters

Ord(c) == CHOOSE i \in 1..Len(Alphabet) : Alphabet[i] = c

\* str.lower()
LowerChar(c) ==
    IF \E i \in 1..Len(UpperLetters) : UpperLetters[i] = c
    THEN LowerLetters[CHOOSE i \in 1..Len(UpperLetters) : UpperLetters[i] = c]
    ELSE c

Lower(s) == [i \in 1..Len(s) |-> LowerChar(s[i])]

\* needle in hay
Contains(hay, needle) ==
    \E i \in 1..(Len(hay) + 1) :
        /\ i + Len(needle) - 1 <= Len(hay)
        /\ SubSeq(hay, i, i + Len(needle) - 1) = needle

\* a <= b in the order of the characters' codes
RECURSIVE StrLeq(_, _)
StrLeq(a, b) ==
    IF a = <<>> THEN TRUE
    ELSE IF b = <<>> THEN FALSE
    ELSE IF a[1] = b[1] THEN StrLeq(Tail(a), Tail(b))
    ELSE Ord(a[1]) < Ord(b[1])

TruthyTokens == { <<"t", "r", "u", "e">>, <<"1">>, <<"y", "e", "s">>, <<"o", "n">> }

----------------------------------------------------------------------------
(* ProductViewSet.get_queryset / list, and dashboard *)

Reverse(seq) == [i \in 1..Len(seq) |-> seq[Len(seq) + 1 - i]]

Permutations_of(S) ==
    {seq \in [1..Cardinality(S) -> S] : \A i, j \in 1..Cardinality(S) :
                                           i # j => seq[i] # seq[j]}

\* the key order_by sorts on
OrderKeyLeq(db, field, a, b) ==
    IF field = "name" THEN StrLeq(db.products[a].name, db.products[b].name)
    ELSE db.products[a].created_at <= db.products[b].created_at

\* queryset.order_by(field): the rows in ascending order of the field; the
\* database may return rows with equal keys in any order
order_by(db, S, field, descending) ==
    LET asc == {seq \in Permutations_of(S) :
                   \A i, j \in 1..Len(seq) :
                       i < j => OrderKeyLeq(db, field, seq[i], seq[j])}
    IN  IF descending THEN {Reverse(seq) : seq \in asc} ELSE asc

\* insertion that ignores reverse=True
RECURSIVE InsertAscending(_, _, _, _)
InsertAscending(db, sorted, x, reverse) ==
    IF sorted = <<>> THEN <<x>>
    ELSE IF _extract_price_value(db.products[x].price)
              < _extract_price_value(db.products[Head(sorted)].price)
         THEN <<x>> \o sorted
         ELSE <<Head(sorted)>> \o InsertAscending(db, Tail(sorted), x, reverse)

\* list.sort(key=...): insertion of x after every element whose key is not
\* greater (ascending) or not smaller (reverse=True): equal keys keep their order
RECURSIVE InsertByPrice(_, _, _, _)
InsertByPrice(db, sorted, x, reverse) ==
    IF sorted = <<>> THEN <<x>>
    ELSE LET kx == _extract_price_value(db.products[x].price)
             kh == _extract_price_value(db.products[Head(sorted)].price)
         IN  IF (IF reverse THEN kx > kh ELSE kx < kh)
             THEN <<x>> \o sorted
             ELSE <<Head(sorted)>> \o InsertByPrice(db, Tail(sorted), x, reverse)

RECURSIVE sort_by_price(_, _, _)
sort_by_price(db, seq, reverse) ==
    IF seq = <<>> THEN <<>>
    ELSE InsertByPrice(db, sort_by_price(db, SubSeq(seq, 1, Len(seq) - 1), reverse),
                       seq[Len(seq)], reverse)

\* the filters on category, search and trending
filter_queryset(db, S, q) ==
    {p \in S :
        /\ q.category # "" => db.products[p].category = q.category
        /\ q.search # <<>> => Contains(Lower(db.products[p].name), Lower(q.search))
        /\ q.trending.given =>
               db.products[p].trending = (Lower(q.trending.value) \in TruthyTokens)}

\* the orderings get_queryset may return for the rows S: a set, because of
\* the database's freedom on equal keys
sorted_queryset(db, S, q) ==
    LET matching == filter_queryset(db, S, q)
        newest_first == order_by(db, matching, "created_at", TRUE)
    IN  CASE q.sort = "name" -> order_by(db, matching, "name", FALSE)
          [] q.sort = "-name" -> order_by(db, matching, "name", TRUE)
          [] q.sort = "price" -> {sort_by_price(db, seq, FALSE) : seq \in newest_first}
          [] q.sort = "-price" -> {sort_by_price(db, seq, TRUE) : seq \in newest_first}
          [] q.sort = "date" -> order_by(db, matching, "created_at", FALSE)
          [] OTHER -> newest_first

is_list(q) == q.sort \in {"price", "-price"}

\* int(request.query_params.get(name, default))
query_int(param, default) == IF param.given THEN param.value ELSE default

\* the limit without the upper bound of 100
normalized_limit_unclamped(q) ==
    LET limit == query_int(q.limit, DefaultLimit)
    IN  IF limit < 1 THEN DefaultLimit ELSE limit

normalized_limit(q) ==
    LET limit == query_int(q.limit, DefaultLimit)
    IN  IF limit < 1 \/ limit > MaxLimit THEN DefaultLimit ELSE limit

normalized_offset(q) ==
    LET offset == query_int(q.offset, 0)
    IN  IF offset < 0 THEN 0 ELSE offset

Min(a, b) == IF a < b THEN a ELSE b

\* queryset[start:end] of a Python list
Slice(seq, start, end) == SubSeq(seq, start + 1, Min(end, Len(seq)))

\* "Manual pagination for list"
paginate_list(ordered, limit, offset) ==
    [count |-> Len(ordered),
     items |-> Slice(ordered, offset, offset + limit),
     total_pages |-> (Len(ordered) + limit - 1) \div limit]

\* Paginator(queryset, limit).get_page((offset // limit) + 1): a page number
\* past the last page gives the last page; an empty queryset has one page
paginate_queryset(ordered, limit, offset) ==
    LET count == Len(ordered)
        hits == IF count > 1 THEN count ELSE 1
        num_pages == (hits + limit - 1) \div limit
        page_number == (offset \div limit) + 1
        number == IF page_number > num_pages THEN num_pages ELSE page_number
        bottom == (number - 1) * limit
        top == IF bottom + limit >= count THEN count ELSE bottom + limit
    IN  [count |-> count,
         items |-> Slice(ordered, bottom, top),
         total_pages |-> num_pages]

\* the response of list / dashboard over the rows S, for the ordering the
\* database produced
page_response(op, q, ordered) ==
    LET limit == normalized_limit(q)
        offset == normalized_offset(q)
        page == IF is_list(q) THEN paginate_list(ordered, limit, offset)
                ELSE paginate_queryset(ordered, limit, offset)
    IN  [NoRequest EXCEPT
            !.op = op, !.status = HTTP_200_OK,
            !.page = [sort |-> q.sort, limit |-> limit, offset |-> offset,
                      count |-> page.count, total_pages |-> page.total_pages,
                      items |-> page.items, ordered |-> ordered]]

\* ProductViewSet.list: the responses it may give
list(db, q) ==
    {page_response("list", q, ordered) :
        ordered \in sorted_queryset(db, DOMAIN db.products, q)}

\* the dashboard over the products of every creator
dashboard_unscoped(db, q) ==
    {page_response("dashboard", q, ordered) :
        ordered \in sorted_queryset(db, DOMAIN db.products, q)}

\* dashboard: the same over Product.objects.filter(creator=user)
dashboard(db, q) ==
    {page_response("dashboard", q, ordered) :
        ordered \in sorted_queryset(
            db, {p \in DOMAIN db.products : db.products[p].creator = q.user}, q)}

----------------------------------------------------------------------------
(* Inputs of the requests *)

Users == {"alice", "bob"}

\* primary keys (uuid4) a new product may get
ProductIds == {"p1", "p2"}

PricePlain == <<"7", "2", "0", "0", "0", "0">>
PriceBad == <<"b", "a", "d">>

NameA == <<"A", "c", "e", "r">>
NameB == <<"D", "e", "l", "l">>
NameShort == <<"a", "b">>

FullData(name) == [name |-> name, category |-> "Laptops", price |-> PricePlain]

\* a sequence of n copies of x
Repeat(x, n) == [i \in 1..n |-> x]

ImageInput(images_data, images_key, files) ==
    [images_data |-> images_data, images_key |-> images_key, files |-> files]

\* request bodies of the lifecycle specification
LifecycleDatas ==
    { FullData(NameA),
      FullData(NameShort),
      [name |-> NameB],
      [price |-> PriceBad] }

LifecycleImages ==
    { ImageInput(<<>>, "absent", <<>>),
      ImageInput(<<>>, "nonfile", <<>>),
      ImageInput(<<B64Png>>, "absent", <<>>),
      ImageInput(<<B64Junk>>, "absent", <<>>),
      ImageInput(<<B64Png, B64Junk>>, "absent", <<>>),
      ImageInput(Repeat(B64Png, MaxImagesPerProduct + 1), "absent", <<>>),
      ImageInput(<<>>, "files", <<FilePng>>),
      ImageInput(<<>>, "files", <<FileHuge>>),
      ImageInput(<<>>, "files", <<FilePng, FileText>>),
      ImageInput(<<>>, "files", Repeat(FilePng, MaxImagesPerProduct + 1)) }

Lifecycle ==
    [pids |-> ProductIds, cap |-> MaxImageId, users |-> {"alice"},
     datas |-> LifecycleDatas, image_inputs |-> LifecycleImages, times |-> {1}]

\* request bodies of the image-limit specification: one product, batches
\* of images around the limit of ten
LimitImages ==
    { ImageInput(<<>>, "absent", <<>>),
      ImageInput(<<B64Png>>, "absent", <<>>),
      ImageInput(Repeat(B64Png, MaxImagesPerProduct - 1), "absent", <<>>),
      ImageInput(Repeat(B64Png, MaxImagesPerProduct), "absent", <<>>),
      ImageInput(Repeat(B64Png, MaxImagesPerProduct + 1), "absent", <<>>),
      ImageInput(<<>>, "files", <<FilePng>>),
      ImageInput(<<>>, "files", Repeat(FilePng, MaxImagesPerProduct - 1)),
      ImageInput(<<>>, "files", Repeat(FilePng, MaxImagesPerProduct)),
      ImageInput(<<>>, "files", Repeat(FilePng, MaxImagesPerProduct + 1)) }

Limit ==
    [pids |-> {"p1"}, cap |-> CapImageId, users |-> {"alice"},
     datas |-> {FullData(NameA)}, image_inputs |-> LimitImages,
     times |-> {1}]

----------------------------------------------------------------------------
(* The state machine: one action per request *)

Init ==
    /\ products = [p \in {} |-> NoData]
    /\ images = [i \in {} |-> ""]
    /\ nextImageId = 1
    /\ tokens = {}
    /\ last = NoRequest
    /\ pending = NoQuery
    /\ inflight = <<>>

\* the request of the principal user is answered with r, one of the
\* outcomes of its view; it is served when the image rows it inserts fit
\* the bound
Serve(D, user, r) ==
    /\ r.db.nextImageId - 1 <= D.cap
    /\ products' = r.db.products
    /\ images' = r.db.images
    /\ nextImageId' = r.db.nextImageId
    /\ tokens' = r.db.tokens
    /\ last' = [r.resp EXCEPT !.user = user]
    /\ UNCHANGED <<pending, inflight>>

Create(D) ==
    \E user \in D.users, data \in D.datas, im \in D.image_inputs,
       now \in D.times, pid \in D.pids \ DOMAIN products :
        \E r \in dispatch(Store, "create", user, pid,
                          {create(Store, [data |-> data] @@ im, user, pid, now)}) :
            Serve(D, user, r)

Update(D) ==
    \E user \in D.users, data \in D.datas, im \in D.image_inputs,
       now \in D.times, pid \in D.pids :
        \E r \in dispatch(Store, "update", user, pid,
                          {update(Store, [data |-> data] @@ im, pid, now)}) :
            Serve(D, user, r)

PartialUpdate(D) ==
    \E user \in D.users, data \in D.datas, im \in D.image_inputs,
       now \in D.times, pid \in D.pids :
        \E r \in dispatch(Store, "partial_update", user, pid,
                          {partial_update(Store, [data |-> data] @@ im, pid, now)}) :
            Serve(D, user, r)

Destroy(D) ==
    \E user \in D.users, pid \in D.pids :
        \E r \in dispatch(Store, "destroy", user, pid, {destroy(Store, pid)}) :
            Serve(D, user, r)

DeleteImage(D) ==
    \E user \in D.users, pid \in D.pids, image_id \in 1..D.cap :
        \E r \in dispatch(Store, "delete_image", user, pid,
                          {delete_image(Store, pid, image_id)}) :
            Serve(D, user, r)

Retrieve(D) ==
    \E user \in D.users, pid \in D.pids :
        \E r \in dispatch(Store, "retrieve", user, pid, {retrieve(Store, pid)}) :
            Serve(D, user, r)

HealthCheck(D) ==
    \E user \in D.users :
        \E r \in dispatch(Store, "health_check", user, "", {health_check(Store)}) :
            Serve(D, user, r)

\* a new Token row gets a key that no row has
Login(D) ==
    \E user \in D.users, data \in D.logins, key \in D.keys :
        \E r \in dispatch(Store, "login", user, "", {login(Store, data, key)}) :
            /\ r.db.tokens # tokens => \A t \in tokens : t.key # key
            /\ Serve(D, user, r)

\* a list or dashboard request q of the principal user is answered with r
ServeQuery(D, user, q, r) ==
    /\ last' = [r.resp EXCEPT !.user = user]
    /\ pending' = q
    /\ UNCHANGED <<products, images, nextImageId, tokens, inflight>>

ListRequest(D) ==
    \E user \in D.users, query \in D.queries :
        LET q == [query EXCEPT !.op = "list"]
        IN  \E r \in dispatch(Store, "list", user, "",
                              {[db |-> Store, resp |-> x] : x \in list(Store, q)}) :
                ServeQuery(D, user, q, r)

DashboardRequest(D) ==
    \E user \in D.users, query \in D.queries :
        LET q == [query EXCEPT !.op = "dashboard", !.user = user]
        IN  \E r \in dispatch(Store, "dashboard", user, "",
                              {[db |-> Store, resp |-> x] : x \in dashboard(Store, q)}) :
                ServeQuery(D, user, q, r)

Next ==
    \/ Create(Lifecycle)
    \/ Update(Lifecycle)
    \/ PartialUpdate(Lifecycle)
    \/ Destroy(Lifecycle)
    \/ DeleteImage(Lifecycle)

Spec == Init /\ [][Next]_vars

NextLimit ==
    \/ Create(Limit)
    \/ Update(Limit)
    \/ PartialUpdate(Limit)
    \/ Destroy(Limit)

SpecLimit == Init /\ [][NextLimit]_vars

----------------------------------------------------------------------------
(* The accounts specification: two accounts and callers without            *)
(* credentials use every endpoint.                                         *)

AccountDatas ==
    { FullData(NameA),
      [name |-> NameB, category |-> "Desktops", creator |-> "bob"] }

AccountImages == { ImageInput(<<B64Png>>, "absent", <<>>) }

LoginBody(username, password) == [username |-> username, password |-> password]

AccountLogins ==
    { LoginBody(NoField, NoField),
      LoginBody(Field("alice"), Field("bob-pw")),
      LoginBody(Field("alice"), Field("alice-pw")) }

AccountQueries == {NoQuery, [NoQuery EXCEPT !.category = "Laptops"]}

Accounts ==
    [pids |-> ProductIds, cap |-> MaxAccountImages,
     users |-> Users \cup {Anonymous},
     datas |-> AccountDatas, image_inputs |-> AccountImages, times |-> {1},
     logins |-> AccountLogins, keys |-> {"k1"}, queries |-> AccountQueries]

NextAccounts ==
    \/ Create(Accounts)
    \/ Update(Accounts)
    \/ PartialUpdate(Accounts)
    \/ Destroy(Accounts)
    \/ DeleteImage(Accounts)
    \/ Retrieve(Accounts)
    \/ ListRequest(Accounts)
    \/ DashboardRequest(Accounts)
    \/ HealthCheck(Accounts)
    \/ Login(Accounts)

SpecAccounts == Init /\ [][NextAccounts]_vars

----------------------------------------------------------------------------
(* The login specification: any sequence of login requests.                *)

LoginRequests ==
    [username : {NoField, Field(""), Field("alice"), Field("bob"), Field("carol")},
     password : {NoField, Field(""), Field("alice-pw"), Field("bob-pw")}]

TokenKeys == {"k1", "k2", "k3"}

Logins ==
    [cap |-> 0, users |-> Users \cup {Anonymous},
     logins |-> LoginRequests, keys |-> TokenKeys]

NextLogin == Login(Logins)

SpecLogin == Init /\ [][NextLogin]_vars

----------------------------------------------------------------------------
(* The listing specification: a catalogue and one list or dashboard        *)
(* request are drawn, and the request is served.                           *)

Row(name, category, price, trending, creator, created_at) ==
    [name |-> name, category |-> category, price |-> price,
     trending |-> trending, creator |-> creator,
     created_at |-> created_at, updated_at |-> created_at]

CatalogIds == <<"p1", "p2", "p3", "p4", "p5">>

\* rows as create stores them (prices in display form), and one whose
\* price is no number
CatalogRows ==
    << Row(<<"A", "c", "e", "r">>, "Laptops",
           <<"1", "0", "0", ",", "0", "0", "0">>, FALSE, "alice", 1),
       Row(<<"D", "e", "l", "l">>, "Laptops",
           <<"5", "0", ",", "0", "0", "0", " ", "T", "Z", "S">>, TRUE, "bob", 2),
       Row(<<"A", "s", "u", "s">>, "Desktops",
           <<"2", "0", "0", ",", "0", "0", "0">>, TRUE, "alice", 3),
       Row(<<"a", "x", "o", "n">>, "Laptops",
           <<"b", "a", "d">>, FALSE, "alice", 4),
       Row(<<"B", "e", "n", "q">>, "Laptops",
           <<"5", "0", ",", "0", "0", "0">>, FALSE, "alice", 5) >>

Sorts == {"", "name", "-name", "price", "-price", "date", "-date"}

ListQueries ==
    [op : {"list"}, user : {""},
     category : {"", "Laptops"}, search : {<<>>, <<"A">>},
     trending : {NoText, Text(<<"O", "n">>), Text(<<"n", "o">>)},
     sort : Sorts,
     limit : {Absent, Given(0), Given(1), Given(2), Given(MaxLimit + 1)},
     offset : {Absent} \cup {Given(n) : n \in -1..MaxOffset}]

DashboardQueries ==
    {[q EXCEPT !.op = "dashboard", !.user = u] : q \in ListQueries, u \in Users}

InitList ==
    /\ \E n \in 0..MaxCatalog :
          /\ products = [p \in {CatalogIds[i] : i \in 1..n} |->
                            CatalogRows[CHOOSE i \in 1..n : CatalogIds[i] = p]]
          /\ images = [i \in 1..n |-> CatalogIds[i]]
          /\ nextImageId = n + 1
    /\ tokens = {}
    /\ last = NoRequest
    /\ pending \in ListQueries \cup DashboardQueries
    /\ inflight = <<>>

ListProducts ==
    /\ pending.op = "list"
    /\ last.op = "none"
    /\ \E r \in list(Store, pending) : last' = r
    /\ UNCHANGED <<products, images, nextImageId, tokens, pending, inflight>>

Dashboard ==
    /\ pending.op = "dashboard"
    /\ last.op = "none"
    /\ \E r \in dashboard(Store, pending) : last' = [r EXCEPT !.user = pending.user]
    /\ UNCHANGED <<products, images, nextImageId, tokens, pending, inflight>>

NextList == ListProducts \/ Dashboard

SpecList == InitList /\ [][NextList]_vars

----------------------------------------------------------------------------
(* The concurrent specification: delete_image requests served by workers   *)
(* whose database statements interleave.  Each statement of the handler    *)
(* commits on its own; the handler takes no lock and opens no transaction. *)

Workers == {"w1", "w2"}

\* a delete_image request in progress: the statement it runs next and the
\* status it was answered with (0 while in progress)
Flight(user, pid, image_id) ==
    [pc |-> "get_object", user |-> user, pid |-> pid, image_id |-> image_id,
     status |-> 0]

\* the response is sent
Respond(w, status) ==
    inflight' = [inflight EXCEPT ![w].pc = "done", ![w].status = status]

Proceed(w, pc) == inflight' = [inflight EXCEPT ![w].pc = pc]

\* a product with one image or more, and a request for every worker
InitRace ==
    /\ \E n \in 1..MaxImageId :
          /\ products = [p \in {"p1"} |-> CatalogRows[1]]
          /\ images = [i \in 1..n |-> "p1"]
          /\ nextImageId = n + 1
    /\ tokens = {}
    /\ last = NoRequest
    /\ pending = NoQuery
    /\ inflight \in [Workers -> {Flight(user, pid, image_id) :
                                   user \in {"alice", Anonymous},
                                   pid \in ProductIds, image_id \in 1..MaxImageId}]

\* the permission check and product = self.get_object()
DeleteImage_get_object(w) ==
    /\ inflight[w].pc = "get_object"
    /\ IF ~has_permission(permission_classes("delete_image"), inflight[w].user)
       THEN \E denied \in {HTTP_401_UNAUTHORIZED, HTTP_403_FORBIDDEN} :
                Respond(w, denied)
       ELSE IF inflight[w].pid \notin DOMAIN products
       THEN Respond(w, HTTP_500_INTERNAL_SERVER_ERROR)
       ELSE Proceed(w, "get_image")
    /\ UNCHANGED <<products, images, nextImageId, tokens, last, pending>>

\* image = ProductImage.objects.get(id=image_id, product=product)
DeleteImage_get_image(w) ==
    /\ inflight[w].pc = "get_image"
    /\ IF inflight[w].image_id \in images_of(Store, inflight[w].pid)
       THEN Proceed(w, "count")
       ELSE Respond(w, HTTP_404_NOT_FOUND)
    /\ UNCHANGED <<products, images, nextImageId, tokens, last, pending>>

\* if product.images.count() <= 1
DeleteImage_count(w) ==
    /\ inflight[w].pc = "count"
    /\ IF images_count(Store, inflight[w].pid) <= 1
       THEN Respond(w, HTTP_400_BAD_REQUEST)
       ELSE Proceed(w, "delete")
    /\ UNCHANGED <<products, images, nextImageId, tokens, last, pending>>

\* image.delete(): a DELETE by primary key, which succeeds whether or not
\* the row is still there
DeleteImage_delete(w) ==
    /\ inflight[w].pc = "delete"
    /\ images' = ProductImage_delete(Store, inflight[w].image_id).images
    /\ Respond(w, HTTP_200_OK)
    /\ UNCHANGED <<products, nextImageId, tokens, last, pending>>

NextRace ==
    \E w \in Workers :
        \/ DeleteImage_get_object(w)
        \/ DeleteImage_get_image(w)
        \/ DeleteImage_count(w)
        \/ DeleteImage_delete(w)

SpecRace == InitRace /\ [][NextRace]_vars

----------------------------------------------------------------------------
(* Request bodies the properties range over *)

AllDatas ==
    LifecycleDatas \cup
    { FullData(NameB), FullData(NameB) @@ [trending |-> TRUE],
      [trending |-> TRUE], NoData }

Body(data, images_data, images_key, files) ==
    [data |-> data, images_data |-> images_data, images_key |-> images_key,
     files |-> files]

UpdateOps == {"update", "partial_update"}

ImageErrors ==
    {"Error processing image", "Image size exceeds 5MB limit", "Invalid image type"}

WritableFields == {"name", "category", "price", "trending"}

----------------------------------------------------------------------------
(* Properties *)

\* C1: every product in the store has at least one image, after any
\* sequence of completed create, update, partial-update, delete-image and
\* delete-product requests.
C1_EveryProductHasAnImage ==
    \A p \in DOMAIN products : images_count(Store, p) >= 1

\* C2: when a create request fails on an invalid image (a base64 string
\* that does not decode, a file that fails validation), the store holds
\* neither the new product nor an image attached during the request.
C2_FailedCreateLeavesNothing ==
    (last.op = "create" /\ last.status = HTTP_400_BAD_REQUEST
        /\ last.error \in ImageErrors)
    => (last.pid \notin DOMAIN products /\ images_of(Store, last.pid) = {})

\* C3: a create request that carries no base64 image (none, or only blank
\* strings) and no file, with or without an 'images' key in the body, is
\* answered 400 and leaves the products (and the images) of the store as
\* they were.
C3_CreateWithoutImagesRejected ==
    \A data \in AllDatas, images_key \in {"absent", "nonfile"},
       images_data \in {<<>>, <<"">>, <<"", "">>},
       user \in Users, pid \in ProductIds \ DOMAIN products :
        LET r == create(Store, Body(data, images_data, images_key, <<>>), user, pid, 1)
        IN  /\ r.resp.status = HTTP_400_BAD_REQUEST
            /\ r.db.products = products
            /\ r.db.images = images

\* a create request with an 'images' key and no file has been rolled back
\* while another product is in the store
C3_Witness ==
    /\ last.op = "create"
    /\ last.status = HTTP_400_BAD_REQUEST
    /\ last.error = "At least one image is required"
    /\ last.persisted
    /\ last.pid \notin DOMAIN products
    /\ DOMAIN products # {}

\* C4: a create request with more than 10 base64 images is rejected with
\* the 'Maximum 10 images' error of validation, and no product or image row
\* is written at any point of the request.
C4_TooManyBase64Rejected ==
    \A data \in {d \in AllDatas : fields_valid(d, FALSE)},
       n \in (MaxImagesPerProduct + 1)..(MaxImagesPerProduct + 2),
       first \in {B64Png, B64Junk},
       im \in {i \in LifecycleImages : i.images_data = <<>>},
       user \in Users, pid \in ProductIds \ DOMAIN products :
        LET images_data == <<first>> \o Repeat(B64Png, n - 1)
            r == create(Store, Body(data, images_data, im.images_key, im.files),
                        user, pid, 1)
        IN  /\ r.resp.status = HTTP_400_BAD_REQUEST
            /\ r.resp.error = "Maximum 10 images allowed per product."
            /\ ~r.resp.persisted
            /\ r.db = Store

\* a create request has been rejected by validation for its number of images
C4_Witness ==
    /\ last.op = "create"
    /\ last.status = HTTP_400_BAD_REQUEST
    /\ last.error = "Maximum 10 images allowed per product."
    /\ ~last.persisted
    /\ last.pid \notin DOMAIN products

\* C5: an update or partial update whose new images would bring the
\* product over 10 images is rejected, so that a product has at most 10
\* images after an update.
C5_AtMostTenAfterUpdate ==
    (last.op \in UpdateOps /\ last.pid \in DOMAIN products)
    => images_count(Store, last.pid) <= MaxImagesPerProduct

\* C6: an update or partial update, successful or not, keeps every image
\* row that was in the store before it.
C6_UpdatesKeepImages ==
    [][last'.op \in UpdateOps
         => \A i \in DOMAIN images :
                i \in DOMAIN images' /\ images'[i] = images[i]]_vars

\* an update has attached an image to a product that already had one
C6_Witness ==
    /\ last.op \in UpdateOps
    /\ last.status = HTTP_200_OK
    /\ images_count(Store, last.pid) >= 2

\* C7: deleting an image of the addressed product is answered 400 and
\* changes nothing when it is the product's only image; otherwise it
\* succeeds and removes that image row and nothing else.
C7_DeleteImageProtectsLast ==
    [][(last'.op = "delete_image" /\ last'.pid \in DOMAIN products
          /\ last'.image_id \in images_of(Store, last'.pid))
         => /\ products' = products
            /\ IF images_count(Store, last'.pid) = 1
               THEN /\ last'.status = HTTP_400_BAD_REQUEST
                    /\ images' = images
               ELSE /\ last'.status = HTTP_200_OK
                    /\ images' = Restrict(images, DOMAIN images \ {last'.image_id})]_vars

\* an image has been deleted from one of two products, both of which keep
\* an image
C7_Witness ==
    /\ last.op = "delete_image"
    /\ last.status = HTTP_200_OK
    /\ Cardinality(DOMAIN products) = 2
    /\ \A p \in DOMAIN products : images_count(Store, p) >= 1
    /\ last.image_id \notin DOMAIN images

\* C8: an update or partial update answered with an error status leaves
\* the product rows and the image rows as they were.
C8_FailedUpdateChangesNothing ==
    [][(last'.op \in UpdateOps /\ last'.status >= HTTP_400_BAD_REQUEST)
         => (products' = products /\ images' = images)]_vars

\* C9: a partial update with valid field values and no images succeeds,
\* sets exactly the supplied fields and leaves the other fields and the
\* images unchanged.
C9_FieldOnlyPatchSucceeds ==
    \A pid \in DOMAIN products,
       data \in {d \in AllDatas : fields_valid(d, TRUE)} :
        LET r == partial_update(Store, Body(data, <<>>, "absent", <<>>), pid, 1)
        IN  /\ r.resp.status = HTTP_200_OK
            /\ r.db.images = images
            /\ \A f \in WritableFields :
                   r.db.products[pid][f] =
                       IF f \in DOMAIN data THEN validated_fields(data)[f]
                       ELSE products[pid][f]

\* C10: the items of a list or dashboard response are the elements at
\* positions [offset, offset + limit) of the filtered, sorted sequence,
\* for every sort mode.
C10_PageIsOffsetWindow ==
    last.op \in {"list", "dashboard"}
    => last.page.items =
           Slice(last.page.ordered, last.page.offset,
                 last.page.offset + last.page.limit)

\* C11: for every sort mode and every total count, an empty result
\* included, the total_pages of a list or dashboard response is
\* ceil(count / limit) for the normalized limit.
C11_TotalPagesIsCeiling ==
    last.op \in {"list", "dashboard"}
    => last.page.total_pages =
           (last.page.count + last.page.limit - 1) \div last.page.limit

\* C12: the limit a list or dashboard request uses and reports is the
\* given limit when it lies in [1, 100] and 20 otherwise (20 when it is
\* missing); the offset it uses and reports is max(offset, 0) (0 when it
\* is missing).
C12_LimitAndOffsetNormalized ==
    last.op \in {"list", "dashboard"}
    => LET limit == IF pending.limit.given /\ pending.limit.value \in 1..MaxLimit
                    THEN pending.limit.value ELSE DefaultLimit
           offset == IF pending.offset.given /\ pending.offset.value > 0
                     THEN pending.offset.value ELSE 0
           page_number == Min((offset \div limit) + 1, last.page.total_pages)
       IN  /\ last.page.limit = limit
           /\ last.page.offset = offset
           /\ last.page.items =
                  IF is_list(pending)
                  THEN Slice(last.page.ordered, offset, offset + limit)
                  ELSE Slice(last.page.ordered, (page_number - 1) * limit,
                             page_number * limit)

\* a list request with a limit above 100 and a negative offset has been
\* served with limit 20 and offset 0 over a catalogue that is not empty
C12_Witness ==
    /\ last.op = "list"
    /\ pending.limit = Given(MaxLimit + 1)
    /\ pending.offset = Given(-1)
    /\ last.page.limit = DefaultLimit
    /\ last.page.offset = 0
    /\ last.page.count > 1
    /\ Len(last.page.items) = last.page.count

\* C13: with sort=-price the list returns the matching products in
\* non-increasing order of the number extracted from their price (commas
\* and 'TZS' removed, a price that is no number counted as 0), with
\* sort=price in non-decreasing order; the result is a permutation of the
\* filtered set.
C13_PriceSortOrdersByValue ==
    (last.op = "list" /\ is_list(pending))
    => LET ordered == last.page.ordered
           matching == filter_queryset(Store, DOMAIN products, pending)
           value(p) == _extract_price_value(products[p].price)
       IN  /\ Len(ordered) = Cardinality(matching)
           /\ {ordered[i] : i \in 1..Len(ordered)} = matching
           /\ \A i, j \in 1..Len(ordered) :
                  i < j => IF pending.sort = "-price"
                           THEN value(ordered[i]) >= value(ordered[j])
                           ELSE value(ordered[i]) <= value(ordered[j])
           /\ last.page.items =
                  Slice(ordered, last.page.offset,
                        last.page.offset + last.page.limit)

\* the catalogue with prices 100,000, 50,000 TZS, 200,000 and one that is
\* no number has been listed with sort=-price
C13_Witness ==
    /\ last.op = "list"
    /\ pending.sort = "-price"
    /\ last.page.ordered = <<"p3", "p1", "p2", "p4">>
    /\ last.page.items = last.page.ordered

\* C14: a retrieve, update, partial-update, delete or delete-image request
\* that passes the permission check and addresses a product id that is
\* not in the store is answered 404 and leaves the store unchanged.
C14_MissingProductIs404 ==
    [][(/\ last'.op \in {"retrieve", "update", "partial_update", "destroy",
                         "delete_image"}
        /\ last'.error # NotAuthenticated
        /\ last'.pid \notin DOMAIN products)
         => /\ last'.status = HTTP_404_NOT_FOUND
            /\ products' = products
            /\ images' = images]_vars

\* C15: a create, update, partial-update, delete-product or delete-image
\* request without an authenticated principal never changes the products
\* or the images of the store; list, retrieve, health and login requests
\* without an authenticated principal are served by their handlers.
C15_AnonymousCannotWrite ==
    [][last'.user = Anonymous
         => /\ last'.op \in {"create", "update", "partial_update", "destroy",
                             "delete_image"}
                 => /\ products' = products
                    /\ images' = images
                    /\ last'.error = NotAuthenticated
            /\ last'.op \in {"list", "retrieve", "health_check", "login"}
                 => last'.error # NotAuthenticated
            /\ last'.op \in {"list", "health_check"}
                 => last'.status = HTTP_200_OK]_vars

\* a caller without credentials has asked to delete a product that has an
\* image, and the product is still in the store
C15_Witness ==
    /\ last.op = "destroy"
    /\ last.user = Anonymous
    /\ last.error = NotAuthenticated
    /\ last.pid \in DOMAIN products
    /\ images_count(Store, last.pid) >= 1

\* C16: every product the dashboard returns has the requesting principal
\* as creator, and its count is the number of that principal's products
\* that match the category, search and trending filters; the creator of a
\* product is the principal of the create request and no later request
\* changes it, so that products created by another account are never
\* returned, whatever requests preceded.
C16_DashboardShowsOwnProducts ==
    [][/\ (last'.op = "dashboard" /\ last'.status = HTTP_200_OK)
            => LET own == {p \in DOMAIN products :
                              products[p].creator = last'.user}
                   matching == filter_queryset(Store, own, pending')
                   items == last'.page.items
               IN  /\ products' = products
                   /\ \A i \in 1..Len(items) : items[i] \in matching
                   /\ last'.page.count = Cardinality(matching)
                   /\ Len(items) = Min(last'.page.count, last'.page.limit)
       /\ \A p \in DOMAIN products \cap DOMAIN products' :
              products'[p].creator = products[p].creator
       /\ \A p \in DOMAIN products' \ DOMAIN products :
              /\ last'.op = "create"
              /\ p = last'.pid
              /\ products'[p].creator = last'.user]_vars

\* alice's dashboard has returned her one product while the store also
\* holds a product created by bob
C16_Witness ==
    /\ last.op = "dashboard"
    /\ last.user = "alice"
    /\ last.status = HTTP_200_OK
    /\ last.page.count = 1
    /\ Len(last.page.items) = 1
    /\ \E p \in DOMAIN products : products[p].creator = "bob"

\* C17: login answers 400 and issues no token when username or password is
\* missing or empty, answers 401 and issues no token when the credentials
\* are rejected, and otherwise returns the account's token; over any
\* sequence of logins an account has at most one token, no token is ever
\* removed or replaced, and so every successful login of an account
\* returns the same token.
C17_LoginIssuesOneToken ==
    [][/\ \A data \in LoginRequests, key \in TokenKeys :
              LET r == login(Store, data, key)
                  incomplete == \/ ~data.username.given \/ data.username.value = ""
                                \/ ~data.password.given \/ data.password.value = ""
                  accepted == /\ data.username.value \in DOMAIN UserTable
                              /\ UserTable[data.username.value] = data.password.value
              IN  r.resp.status = IF incomplete THEN HTTP_400_BAD_REQUEST
                                  ELSE IF ~accepted THEN HTTP_401_UNAUTHORIZED
                                  ELSE HTTP_200_OK
       /\ last'.op = "login"
            => /\ tokens \subseteq tokens'
               /\ \A t1, t2 \in tokens' : t1.user = t2.user => t1 = t2
               /\ last'.status \in {HTTP_400_BAD_REQUEST, HTTP_401_UNAUTHORIZED}
                    => (tokens' = tokens /\ last'.token = "")
               /\ last'.status = HTTP_200_OK
                    => /\ [key |-> last'.token, user |-> last'.account] \in tokens'
                       /\ (\E t \in tokens : t.user = last'.account)
                            => tokens' = tokens]_vars

\* both accounts hold a token and a login has just returned alice's
C17_Witness ==
    /\ last.op = "login"
    /\ last.status = HTTP_200_OK
    /\ last.account = "alice"
    /\ Cardinality(tokens) = 2
    /\ [key |-> last.token, user |-> "alice"] \in tokens

\* C18: after any sequence of create, update, delete-image and
\* delete-product requests every image of the store belongs to a product
\* of the store; a successful delete of a product removes that product,
\* all of its images, and no image of another product.
C18_ImagesBelongToProducts ==
    [][/\ \A i \in DOMAIN images' : images'[i] \in DOMAIN products'
       /\ (last'.op = "destroy" /\ last'.status = HTTP_200_OK)
            => /\ products' = Restrict(products, DOMAIN products \ {last'.pid})
               /\ images' = Restrict(images, {i \in DOMAIN images :
                                                 images[i] # last'.pid})]_vars

\* a product that had an image has been deleted while another product
\* keeps its image
C18_Witness ==
    /\ last.op = "destroy"
    /\ last.status = HTTP_200_OK
    /\ last.pid \notin DOMAIN products
    /\ \E p \in DOMAIN products : images_count(Store, p) >= 1
    /\ nextImageId = MaxImageId + 1
    /\ Cardinality(DOMAIN images) = 1

\* C19: when delete-image requests run concurrently, their statements
\* interleaved, two requests for the same product that have both been
\* answered 200 leave the product with an image: the requests for the two
\* images of a product with exactly two images do not both succeed.
C19_ConcurrentDeletesKeepAnImage ==
    \A w1, w2 \in Workers :
        (/\ w1 # w2
         /\ inflight[w1].pid = inflight[w2].pid
         /\ inflight[w1].status = HTTP_200_OK
         /\ inflight[w2].status = HTTP_200_OK)
        => images_count(Store, inflight[w1].pid) >= 1

====
